---- MODULE Spec2Model ----
(***************************************************************************)
(* react-native-image-description: the JS facade (index.tsx), the Android  *)
(* native module (ImageDescriptionModule.kt) and the iOS native module     *)
(* (ImageDescriptionModule.m), as one state machine.                       *)
(*                                                                         *)
(* Strings whose content matters are sequences of tokens: an image locator *)
(* is <<"file://", "/ok.jpg">> or <<"/ok.jpg">>, an error message is the   *)
(* literal prefix followed by the interpolated tokens.  Confidences are    *)
(* integer percents (0.5f is 50).                                          *)
(***************************************************************************)
EXTENDS Integers, Sequences, FiniteSets, TLC

\* ------------------------------------------------------------------ bounds
MaxCalls == 2
MaxProgress == 1
MaxInvalidate == 1
MaxBytes == 1
MaxTeardowns == 2
MaxSessionProgress == 2
MaxSessionBytes == 2

\* ------------------------------------------------- environment vocabularies
Platforms == {"ios", "android"}

\* com.google.mlkit.genai.common.FeatureStatus
FeatureStatuses == {"UNAVAILABLE", "DOWNLOADABLE", "DOWNLOADING", "AVAILABLE"}

\* files present on the device
ExistingFiles == {"/ok.jpg", "/photo 1.jpg"}

\* image locators a caller may pass
Locators == { <<"/ok.jpg">>, <<"file://", "/ok.jpg">>, <<"/missing.jpg">>,
              <<"file://", "/bad uri.jpg">> }

\* texts the description engine may return
EngineTexts == {"A cat on a sofa", ""}

\* message of an exception thrown by a provider
ProviderMessage == "provider error"

NoOpt == -1

\* option maps a caller may pass to classifyImage ({} when omitted)
ClassifyOptions ==
  { [confidenceThreshold |-> NoOpt, maxResults |-> NoOpt, minimumConfidence |-> NoOpt,
     iosUseMlKit |-> NoOpt],
    [confidenceThreshold |-> 70, maxResults |-> 1, minimumConfidence |-> NoOpt,
     iosUseMlKit |-> NoOpt],
    [confidenceThreshold |-> NoOpt, maxResults |-> NoOpt, minimumConfidence |-> 50,
     iosUseMlKit |-> 0] }

NoOptions ==
  [confidenceThreshold |-> NoOpt, maxResults |-> NoOpt, minimumConfidence |-> NoOpt,
   iosUseMlKit |-> NoOpt]

HasKey(options, key) == options[key] # NoOpt

\* labelings the classification engine may compute for the image
RawLabelings ==
  { <<>>,
    << [text |-> "cat", confidence |-> 90], [text |-> "pet", confidence |-> 60] >> }

\* ------------------------------------------------------------ promise values
Pending == [kind |-> "pending"]
Resolved(v) == [kind |-> "resolve", value |-> v]
Rejected(code, message) == [kind |-> "reject", code |-> code, message |-> message]

\* a message mentions a token when the token is one of its parts
Mentions(message, token) == \E i \in 1..Len(message) : message[i] = token

VARIABLES
  os,              \* Platform.OS
  calls,           \* every facade call made so far, in call order
  imageLabeler,    \* memoized labeler handle, 0 = null
  imageDescriber,  \* memoized describer handle, 0 = null
  labelerThreshold,\* confidence threshold the memoized labeler was built with
  scopeActive,     \* the coroutine scope has not been cancelled
  featureStatus,   \* the description provider's feature status
  nHandles,        \* handles constructed so far
  closedHandles,   \* the handles close() was called on, in order
  invalidations,   \* number of invalidate() calls
  gate             \* history: checkDescriptionModelStatus has returned
                   \* "downloadable", and since then no download has completed
                   \* and no describeImage call has been made

vars == << os, calls, imageLabeler, imageDescriber, labelerThreshold, scopeActive,
           featureStatus, nHandles, closedHandles, invalidations, gate >>

moduleVars == << imageLabeler, imageDescriber, labelerThreshold, scopeActive,
                 nHandles, closedHandles, invalidations >>

CallIds == 1..Len(calls)

\* the facade call record at the moment the JS function is entered
NewCall(op, uri, options, hasCb) ==
  [ op |-> op, uri |-> uri, options |-> options, hasCb |-> hasCb,
    pc |-> "bridge",
    native |-> Pending,        \* the promise handed to the native method
    settlements |-> 0,         \* resolve/reject invocations on that promise
    result |-> Pending,        \* the promise returned by the facade function
    observed |-> "none",       \* status seen by the call's own status check
    inference |-> 0,           \* runInference invocations made by the call
    downloadInvoked |-> 0,     \* downloadFeature invocations made by the call
    emitted |-> <<>>,          \* progress events sent by the call's callback
    subscribed |-> FALSE,      \* the facade listener of the call is attached
    logged |-> <<>>,           \* errors the facade passed to console.error
    terminal |-> "none",       \* terminal callback of the call's download
    gated |-> FALSE,           \* history: gate held when the call was made
    observations |-> <<>>,     \* what the Vision request returned to the call
    mlkitLabels |-> <<>>,      \* what the ML Kit labeler returned to the call
    mlkit |-> "none",          \* the ML Kit labeler: "none" (not invoked),
                               \* "labels" (it answered) or "error"
    epoch |-> invalidations,   \* history: invalidate() calls before the call
    progress |-> <<>> ]        \* the arguments onProgress was invoked with

Init ==
  /\ os \in Platforms
  /\ calls = <<>>
  /\ imageLabeler = 0
  /\ imageDescriber = 0
  /\ labelerThreshold = 0
  /\ scopeActive = TRUE
  /\ featureStatus \in FeatureStatuses
  /\ nHandles = 0
  /\ closedHandles = <<>>
  /\ invalidations = 0
  /\ gate = FALSE

\* promise.resolve / promise.reject: only the first settlement takes effect
Settle(call, outcome) ==
  [call EXCEPT !.native = IF @.kind = "pending" THEN outcome ELSE @,
               !.settlements = @ + 1]

\* ------------------------------------------------------------ image loading
NoBitmap == "null"

StartsWithFile(uri) == Len(uri) > 0 /\ uri[1] = "file://"

\* the path a percent-encoded URI path stands for
PercentDecode(path) == IF path = "/photo%201.jpg" THEN "/photo 1.jpg" ELSE path

\* the percent-encoded form of a path
PercentEncode(path) == IF path = "/photo 1.jpg" THEN "/photo%201.jpg" ELSE path

\* a path taken from the URI string as it stands
UriPathUndecoded(uri) == IF StartsWithFile(uri) THEN uri[2] ELSE uri[1]

\* Uri.parse(uriString).path, which is the decoded path, and
\* Uri.fromFile(File(uriString)).path, which is the path given
UriPath(uri) == IF StartsWithFile(uri) THEN PercentDecode(uri[2]) ELSE uri[1]

\* a decoder that finds a bitmap at every path
LoadBitmapAnyPath(uri) == UriPath(uri)

\* BitmapFactory.decodeFile(path): null when the file cannot be decoded
LoadBitmapFromUri(uri) ==
  IF UriPath(uri) \in ExistingFiles THEN UriPath(uri) ELSE NoBitmap

\* ---------------------------------------------------- facade: entering a call
\* index.tsx classifyImage up to the await: the native method is invoked
CallClassifyImage(uri, options) ==
  /\ Len(calls) < MaxCalls
  /\ calls' = Append(calls, NewCall("classify", uri, options, FALSE))
  /\ UNCHANGED << os, featureStatus, moduleVars, gate >>

\* the result of the catch block in place of the iOS branch's result
IosDescribeResultNoStatus ==
  [ success |-> FALSE, description |-> "",
    error |-> <<"Image description is not available on iOS. Use classifyImage() for classification labels.">> ]

IosDescribeResult ==
  [ success |-> FALSE, description |-> "",
    error |-> <<"Image description is not available on iOS. Use classifyImage() for classification labels.">>,
    modelStatus |-> "not_supported" ]

\* index.tsx describeImage up to the await (Android) or to its return (iOS)
CallDescribeImage(uri) ==
  /\ Len(calls) < MaxCalls
  /\ calls' = Append(calls,
       IF os = "ios"
         THEN [NewCall("describe", uri, NoOptions, FALSE) EXCEPT
                 !.pc = "end", !.result = Resolved(IosDescribeResult),
                 !.gated = gate]
         ELSE [NewCall("describe", uri, NoOptions, FALSE) EXCEPT !.gated = gate])
  /\ gate' = FALSE
  /\ UNCHANGED << os, featureStatus, moduleVars >>

\* index.tsx checkDescriptionModelStatus up to the await or to its return
CallCheckDescriptionModelStatus ==
  /\ Len(calls) < MaxCalls
  /\ calls' = Append(calls,
       IF os = "ios"
         THEN [NewCall("status", <<>>, NoOptions, FALSE) EXCEPT
                 !.pc = "end", !.result = Resolved("not_supported")]
         ELSE NewCall("status", <<>>, NoOptions, FALSE))
  /\ UNCHANGED << os, featureStatus, moduleVars, gate >>

\* index.tsx downloadDescriptionModel up to the await or to its return:
\* the progress listener is attached before the native method is invoked
CallDownloadDescriptionModel(hasCb) ==
  /\ Len(calls) < MaxCalls
  /\ calls' = Append(calls,
       IF os = "ios"
         THEN [NewCall("download", <<>>, NoOptions, hasCb) EXCEPT
                 !.pc = "end", !.result = Resolved(FALSE)]
         ELSE [NewCall("download", <<>>, NoOptions, hasCb) EXCEPT
                 !.subscribed = hasCb])
  /\ UNCHANGED << os, featureStatus, moduleVars, gate >>

\* ------------------------------------------- Android: describer memoization
\* if (imageDescriber == null) imageDescriber = ImageDescription.getClient(..)
\* built = FALSE: getClient throws
DescriberAfterEnsure(built) ==
  IF imageDescriber = 0 /\ built THEN nHandles + 1 ELSE imageDescriber

\* a describer constructed in every call
EnsureDescriberEveryCall(built) ==
  /\ imageDescriber' = nHandles + 1
  /\ nHandles' = nHandles + 1
  /\ UNCHANGED << imageLabeler, labelerThreshold, scopeActive, closedHandles,
                  invalidations >>

\* a describeImage that leaves the describer as it is
EnsureDescriberNever(built) ==
  /\ imageDescriber' = imageDescriber
  /\ nHandles' = nHandles
  /\ UNCHANGED << imageLabeler, labelerThreshold, scopeActive, closedHandles,
                  invalidations >>

EnsureDescriber(built) ==
  /\ imageDescriber' = DescriberAfterEnsure(built)
  /\ nHandles' = IF imageDescriber = 0 /\ built THEN nHandles + 1 ELSE nHandles
  /\ UNCHANGED << imageLabeler, labelerThreshold, scopeActive, closedHandles,
                  invalidations >>

\* ------------------------------------------------ Android: describeImage
\* the ternary of line 154 with its branches swapped
DescribeDegradedSwapped(status) ==
  [ success |-> FALSE, description |-> "",
    error |-> <<"Model needs to be downloaded. Call downloadDescriptionModel() first.">>,
    modelStatus |-> IF status = "DOWNLOADING" THEN "downloadable" ELSE "downloading" ]

DescribeDegraded(status) ==
  [ success |-> FALSE, description |-> "",
    error |-> <<"Model needs to be downloaded. Call downloadDescriptionModel() first.">>,
    modelStatus |-> IF status = "DOWNLOADING" THEN "downloading" ELSE "downloadable" ]

\* an else branch that reports the model as downloadable
DescribeNotAvailableAsDownloadable(status) ==
  [ success |-> FALSE, description |-> "",
    error |-> <<"Model is not available: ", status>>,
    modelStatus |-> "downloadable" ]

DescribeNotAvailable(status) ==
  [ success |-> FALSE, description |-> "",
    error |-> <<"Model is not available: ", status>>,
    modelStatus |-> "not_available" ]

DescribeSuccess(description) ==
  [ success |-> TRUE, description |-> description, modelStatus |-> "available" ]

\* the synchronous part of describeImage, up to statusFuture.addListener
NativeDescribeImage(c) ==
  /\ os = "android"
  /\ calls[c].op = "describe" /\ calls[c].pc = "bridge"
  /\ \E built \in BOOLEAN :
       /\ EnsureDescriber(built)
       /\ calls' = [calls EXCEPT ![c] =
            IF DescriberAfterEnsure(built) = 0
              THEN [Settle(@, Rejected("description_failed",
                      <<"Failed to describe image: ", ProviderMessage>>))
                    EXCEPT !.pc = "end"]
            ELSE IF LoadBitmapFromUri(@.uri) = NoBitmap
              THEN [Settle(@, Rejected("image_load_failed",
                      <<"Failed to load image from URI: ">> \o @.uri))
                    EXCEPT !.pc = "end"]
            ELSE [@ EXCEPT !.pc = "status"]]
  /\ UNCHANGED << os, featureStatus, gate >>

\* the listener of statusFuture in describeImage; checked = FALSE: get() throws
DescribeStatusListener(c) ==
  /\ calls[c].op = "describe" /\ calls[c].pc = "status"
  /\ \E checked \in BOOLEAN :
       calls' = [calls EXCEPT ![c] =
         IF ~checked
           THEN [Settle(@, Rejected("status_check_failed",
                   <<"Failed to check model status: ", ProviderMessage>>))
                 EXCEPT !.pc = "end"]
         ELSE IF featureStatus = "AVAILABLE"
           THEN IF imageDescriber = 0
                  THEN [Settle([@ EXCEPT !.observed = featureStatus],
                          Rejected("status_check_failed",
                            <<"Failed to check model status: ", "null">>))
                        EXCEPT !.pc = "end"]
                  ELSE [@ EXCEPT !.observed = featureStatus,
                                 !.inference = @ + 1, !.pc = "inference"]
         ELSE IF featureStatus \in {"DOWNLOADABLE", "DOWNLOADING"}
           THEN [Settle([@ EXCEPT !.observed = featureStatus],
                        Resolved(DescribeDegraded(featureStatus)))
                 EXCEPT !.pc = "end"]
         ELSE [Settle([@ EXCEPT !.observed = featureStatus],
                      Resolved(DescribeNotAvailable(featureStatus)))
               EXCEPT !.pc = "end"]]
  /\ UNCHANGED << os, featureStatus, moduleVars, gate >>

\* the listener of inferenceFuture; an engine failure makes get() throw
DescribeInferenceListener(c) ==
  /\ calls[c].op = "describe" /\ calls[c].pc = "inference"
  /\ \/ \E text \in EngineTexts :
          calls' = [calls EXCEPT ![c] =
            [Settle(@, Resolved(DescribeSuccess(text))) EXCEPT !.pc = "end"]]
     \/ calls' = [calls EXCEPT ![c] =
            [Settle(@, Rejected("description_failed",
               <<"Failed inference: ", ProviderMessage>>)) EXCEPT !.pc = "end"]]
  /\ UNCHANGED << os, featureStatus, moduleVars, gate >>

\* ------------------------------------- Android: checkDescriptionModelStatus
\* a mapping that reports a running download as downloadable
StatusStringNoDownloading(status) ==
  CASE status = "AVAILABLE" -> "available"
    [] status = "DOWNLOADABLE" -> "downloadable"
    [] status = "DOWNLOADING" -> "downloadable"
    [] OTHER -> "not_available"

StatusString(status) ==
  CASE status = "AVAILABLE" -> "available"
    [] status = "DOWNLOADABLE" -> "downloadable"
    [] status = "DOWNLOADING" -> "downloading"
    [] OTHER -> "not_available"

\* the synchronous part of checkDescriptionModelStatus
NativeCheckDescriptionModelStatus(c) ==
  /\ os = "android"
  /\ calls[c].op = "status" /\ calls[c].pc = "bridge"
  /\ \E built \in BOOLEAN :
       /\ EnsureDescriber(built)
       /\ calls' = [calls EXCEPT ![c] =
            IF DescriberAfterEnsure(built) = 0
              THEN [Settle(@, Rejected("status_check_failed",
                      <<"Failed to check model status: ", ProviderMessage>>))
                    EXCEPT !.pc = "end"]
              ELSE [@ EXCEPT !.pc = "status"]]
  /\ UNCHANGED << os, featureStatus, gate >>

\* the listener of the status future; checked = FALSE: get() throws
CheckStatusListener(c) ==
  /\ calls[c].op = "status" /\ calls[c].pc = "status"
  /\ \E checked \in BOOLEAN :
       calls' = [calls EXCEPT ![c] =
         IF checked
           THEN [Settle([@ EXCEPT !.observed = featureStatus],
                        Resolved(StatusString(featureStatus)))
                 EXCEPT !.pc = "end"]
           ELSE [Settle(@, Rejected("status_check_failed",
                   <<"Failed to check model status: ", ProviderMessage>>))
                 EXCEPT !.pc = "end"]]
  /\ UNCHANGED << os, featureStatus, moduleVars, gate >>

\* ---------------------------------------- Android: downloadDescriptionModel
\* the synchronous part of downloadDescriptionModel
NativeDownloadDescriptionModel(c) ==
  /\ os = "android"
  /\ calls[c].op = "download" /\ calls[c].pc = "bridge"
  /\ \E built \in BOOLEAN :
       /\ EnsureDescriber(built)
       /\ calls' = [calls EXCEPT ![c] =
            IF DescriberAfterEnsure(built) = 0
              THEN [Settle(@, Rejected("download_failed",
                      <<"Failed to download model: ", ProviderMessage>>))
                    EXCEPT !.pc = "end"]
              ELSE [@ EXCEPT !.pc = "status"]]
  /\ UNCHANGED << os, featureStatus, gate >>

\* the listener without the early return for AVAILABLE
DownloadDecisionNoEarlyReturn(status) ==
  IF status # "DOWNLOADABLE" /\ status # "DOWNLOADING" /\ status # "AVAILABLE"
    THEN "reject" ELSE "download"

\* the listener without the check of line 223
DownloadDecisionNoStateCheck(status) ==
  IF status = "AVAILABLE" THEN "resolve" ELSE "download"

\* a listener that resolves whatever the status is
DownloadDecisionAlwaysResolve(status) == "resolve"

\* lines 219-226: what the download listener does for an observed status
DownloadDecision(status) ==
  IF status = "AVAILABLE" THEN "resolve"
  ELSE IF status # "DOWNLOADABLE" /\ status # "DOWNLOADING" THEN "reject"
  ELSE "download"

\* a listener without the return@addListener of line 220: it goes on to the
\* check of line 222, which rejects a status that is not downloadable
DownloadAvailableNoReturn(call, status) ==
  Settle(Settle([call EXCEPT !.observed = status], Resolved(TRUE)),
         Rejected("download_failed", <<"Model cannot be downloaded. Status: ", status>>))

\* lines 218-221: the model is there, promise.resolve(true) and return
DownloadAvailable(call, status) ==
  Settle([call EXCEPT !.observed = status], Resolved(TRUE))

\* history: a download has completed, so no pending call is gated any more
Ungated(cs) == [ k \in DOMAIN cs |-> [cs[k] EXCEPT !.gated = FALSE] ]

\* the listener of statusFuture in downloadDescriptionModel
DownloadStatusListener(c) ==
  /\ calls[c].op = "download" /\ calls[c].pc = "status"
  /\ \E checked \in BOOLEAN :
       IF ~checked
         THEN /\ calls' = [calls EXCEPT ![c] =
                   [Settle(@, Rejected("download_failed",
                      <<"Failed to check model status: ", ProviderMessage>>))
                    EXCEPT !.pc = "end"]]
              /\ UNCHANGED << featureStatus, gate >>
       ELSE IF DownloadDecision(featureStatus) = "resolve"
         THEN /\ calls' = Ungated([calls EXCEPT ![c] =
                   [DownloadAvailable(@, featureStatus) EXCEPT !.pc = "end"]])
              /\ gate' = FALSE
              /\ UNCHANGED featureStatus
       ELSE IF DownloadDecision(featureStatus) = "reject"
         THEN /\ calls' = [calls EXCEPT ![c] =
                   [Settle([@ EXCEPT !.observed = featureStatus],
                      Rejected("download_failed",
                        <<"Model cannot be downloaded. Status: ", featureStatus>>))
                    EXCEPT !.pc = "end"]]
              /\ UNCHANGED << featureStatus, gate >>
       ELSE IF imageDescriber = 0
         THEN /\ calls' = [calls EXCEPT ![c] =
                   [Settle([@ EXCEPT !.observed = featureStatus],
                      Rejected("download_failed",
                        <<"Failed to check model status: ", "null">>))
                    EXCEPT !.pc = "end"]]
              /\ UNCHANGED << featureStatus, gate >>
       ELSE /\ calls' = [calls EXCEPT ![c] =
                 [@ EXCEPT !.observed = featureStatus,
                           !.downloadInvoked = @ + 1, !.pc = "downloading"]]
            /\ featureStatus' = "DOWNLOADING"
            /\ UNCHANGED gate
  /\ UNCHANGED << os, moduleVars >>

\* the provider download operations that have not completed or failed
ActiveDownloads == { c \in CallIds : calls[c].pc = "downloading" }

Started(call) == Len(call.emitted) > 0

\* the progressMap of onDownloadStarted
StartedEvent(bytesToDownload) == [totalBytes |-> bytesToDownload]

\* a progressMap that carries the total as well
ProgressEventBothFields(totalBytesDownloaded) ==
  [downloadedBytes |-> totalBytesDownloaded, totalBytes |-> 0]

\* the progressMap of onDownloadProgress
ProgressEvent(totalBytesDownloaded) == [downloadedBytes |-> totalBytesDownloaded]

Undefined == [kind |-> "undefined"]

Number(n) == [kind |-> "number", value |-> n]

\* the facade listener: onProgress(event.progress)
OnProgressArgument(event) ==
  IF "progress" \in DOMAIN event THEN Number(event.progress) ELSE Undefined

\* a channel that delivers an event to the listener of the call that caused it
SendEventToCaller(c, event) ==
  [ k \in DOMAIN calls |->
      [calls[k] EXCEPT
         !.emitted = IF k = c THEN Append(@, event) ELSE @,
         !.progress = IF k = c /\ calls[k].subscribed
                        THEN Append(@, OnProgressArgument(event)) ELSE @] ]

\* sendEvent: the call's callback emits the event on the channel, and every
\* listener attached to the channel invokes its onProgress
SendEvent(c, event) ==
  [ k \in DOMAIN calls |->
      [calls[k] EXCEPT
         !.emitted = IF k = c THEN Append(@, event) ELSE @,
         !.progress = IF calls[k].subscribed
                        THEN Append(@, OnProgressArgument(event)) ELSE @] ]

\* DownloadCallback.onDownloadStarted: one totalBytes event
OnDownloadStartedUpTo(c, maxBytes) ==
  /\ calls[c].pc = "downloading" /\ ~Started(calls[c])
  /\ \E total \in 1..maxBytes : calls' = SendEvent(c, StartedEvent(total))
  /\ UNCHANGED << os, featureStatus, moduleVars, gate >>

OnDownloadStarted(c) == OnDownloadStartedUpTo(c, MaxBytes)

\* a provider that reports the bytes of each chunk, not the cumulative number
LastDownloadedPerChunk(call) == 0

LastDownloaded(call) ==
  IF Len(call.emitted) > 1 THEN call.emitted[Len(call.emitted)].downloadedBytes ELSE 0

\* DownloadCallback.onDownloadProgress: one downloadedBytes event; the
\* provider reports the cumulative number of bytes
OnDownloadProgressWithin(c, maxProgress) ==
  /\ calls[c].pc = "downloading" /\ Started(calls[c])
  /\ Len(calls[c].emitted) <= maxProgress
  /\ \E n \in LastDownloaded(calls[c])..calls[c].emitted[1].totalBytes :
       calls' = SendEvent(c, ProgressEvent(n))
  /\ UNCHANGED << os, featureStatus, moduleVars, gate >>

OnDownloadProgress(c) == OnDownloadProgressWithin(c, MaxProgress)

\* DownloadCallback.onDownloadCompleted
OnDownloadCompleted(c) ==
  /\ calls[c].pc = "downloading"
  /\ calls' = Ungated([calls EXCEPT ![c] =
       [Settle(@, Resolved(TRUE)) EXCEPT !.pc = "end", !.terminal = "completed"]])
  /\ featureStatus' = "AVAILABLE"
  /\ gate' = FALSE
  /\ UNCHANGED << os, moduleVars >>

\* DownloadCallback.onDownloadFailed
OnDownloadFailed(c) ==
  /\ calls[c].pc = "downloading"
  /\ calls' = [calls EXCEPT ![c] =
       [Settle(@, Rejected("download_failed",
          <<"Model download failed: ", ProviderMessage>>))
        EXCEPT !.pc = "end", !.terminal = "failed"]]
  /\ featureStatus' = IF ActiveDownloads = {c} THEN "DOWNLOADABLE" ELSE featureStatus
  /\ UNCHANGED << os, moduleVars, gate >>

\* the provider's status changes on its own (the model is shared on the device)
ProviderStatusChange(status) ==
  /\ os = "android"
  /\ status # featureStatus
  /\ featureStatus' = status
  /\ UNCHANGED << os, calls, moduleVars, gate >>

\* ------------------------------------------------------ Android: invalidate
\* an invalidate that closes the labeler only
CloseAllLabelerOnly(labeler, describer) ==
  IF labeler # 0 THEN <<labeler>> ELSE <<>>

CloseAll(labeler, describer) ==
  (IF labeler # 0 THEN <<labeler>> ELSE <<>>) \o
  (IF describer # 0 THEN <<describer>> ELSE <<>>)

InvalidateWithin(limit) ==
  /\ os = "android"
  /\ invalidations < limit
  /\ invalidations' = invalidations + 1
  /\ scopeActive' = FALSE
  /\ closedHandles' = closedHandles \o CloseAll(imageLabeler, imageDescriber)
  /\ imageLabeler' = 0
  /\ imageDescriber' = 0
  /\ labelerThreshold' = 0
  /\ UNCHANGED << os, calls, featureStatus, nHandles, gate >>

Invalidate == InvalidateWithin(MaxInvalidate)

\* --------------------------------------------------- Android: classifyImage
DefaultConfidenceThreshold == 50

ConfidenceThreshold(options) ==
  IF HasKey(options, "confidenceThreshold")
    THEN options.confidenceThreshold ELSE DefaultConfidenceThreshold

\* what a labeler built with the threshold returns for a labeling of the image
LabelerOutput(raw, threshold) ==
  SelectSeq(raw, LAMBDA label : label.confidence >= threshold)

\* a max results filter that keeps every label
TakeAll(seq, n) == seq

Take(seq, n) == SubSeq(seq, 1, IF n < Len(seq) THEN n ELSE Len(seq))

MaxResultsAndroid(options) ==
  IF HasKey(options, "maxResults") THEN options.maxResults ELSE 0

\* the result map with 1-based positions
ClassifySuccessAndroidOneBased(labels, options) ==
  LET filteredLabels == IF MaxResultsAndroid(options) > 0
                          THEN Take(labels, MaxResultsAndroid(options)) ELSE labels
  IN [ success |-> TRUE,
       labels |-> [ i \in 1..Len(filteredLabels) |->
                      [ identifier |-> filteredLabels[i].text,
                        confidence |-> filteredLabels[i].confidence,
                        index |-> i ] ] ]

\* lines 73-100: the max results filter and the result map
ClassifySuccessAndroid(labels, options) ==
  LET filteredLabels == IF MaxResultsAndroid(options) > 0
                          THEN Take(labels, MaxResultsAndroid(options)) ELSE labels
  IN [ success |-> TRUE,
       labels |-> [ i \in 1..Len(filteredLabels) |->
                      [ identifier |-> filteredLabels[i].text,
                        confidence |-> filteredLabels[i].confidence,
                        index |-> i - 1 ] ] ]

\* classifyImage: scope.launch { ... }; a cancelled scope starts no coroutine
NativeClassifyImage(c) ==
  /\ os = "android"
  /\ calls[c].op = "classify" /\ calls[c].pc = "bridge"
  /\ calls' = [calls EXCEPT ![c].pc = IF scopeActive THEN "coroutine" ELSE "dropped"]
  /\ UNCHANGED << os, featureStatus, moduleVars, gate >>

\* the coroutine body up to process(inputImage).await()
ClassifyCoroutine(c) ==
  /\ calls[c].op = "classify" /\ calls[c].pc = "coroutine"
  /\ scopeActive
  /\ \E built \in BOOLEAN :
       IF LoadBitmapFromUri(calls[c].uri) = NoBitmap
         THEN /\ calls' = [calls EXCEPT ![c] =
                   [Settle(@, Rejected("image_load_failed",
                      <<"Failed to load image from URI: ">> \o @.uri))
                    EXCEPT !.pc = "end"]]
              /\ UNCHANGED moduleVars
       ELSE IF imageLabeler = 0 /\ ~built
         THEN /\ calls' = [calls EXCEPT ![c] =
                   [Settle(@, Rejected("classification_failed",
                      <<"Failed to classify image: ", ProviderMessage>>))
                    EXCEPT !.pc = "end"]]
              /\ UNCHANGED moduleVars
       ELSE /\ calls' = [calls EXCEPT ![c].pc = "process"]
            /\ imageLabeler' = IF imageLabeler = 0 THEN nHandles + 1 ELSE imageLabeler
            /\ nHandles' = IF imageLabeler = 0 THEN nHandles + 1 ELSE nHandles
            /\ labelerThreshold' = IF imageLabeler = 0
                                     THEN ConfidenceThreshold(calls[c].options)
                                     ELSE labelerThreshold
            /\ UNCHANGED << imageDescriber, scopeActive, closedHandles, invalidations >>
  /\ UNCHANGED << os, featureStatus, gate >>

\* the coroutine resumes from await() with the labels or with the exception;
\* the engine computes one of labelings
ClassifyProcessDoneFrom(c, labelings) ==
  /\ calls[c].op = "classify" /\ calls[c].pc = "process"
  /\ scopeActive
  /\ \/ \E raw \in labelings :
          calls' = [calls EXCEPT ![c] =
            [Settle([@ EXCEPT !.mlkitLabels = LabelerOutput(raw, labelerThreshold)],
               Resolved(ClassifySuccessAndroid(
                          LabelerOutput(raw, labelerThreshold), @.options)))
             EXCEPT !.pc = "end"]]
     \/ calls' = [calls EXCEPT ![c] =
            [Settle(@, Rejected("classification_failed",
               <<"Failed to classify image: ", ProviderMessage>>)) EXCEPT !.pc = "end"]]
  /\ UNCHANGED << os, featureStatus, moduleVars, gate >>

ClassifyProcessDone(c) == ClassifyProcessDoneFrom(c, RawLabelings)

\* scope.cancel() resumes the suspended coroutine with a CancellationException,
\* which the catch (e: Exception) of the body turns into a rejection
ClassifyCancelled(c) ==
  /\ calls[c].op = "classify" /\ calls[c].pc = "process"
  /\ ~scopeActive
  /\ calls' = [calls EXCEPT ![c] =
       [Settle(@, Rejected("classification_failed",
          <<"Failed to classify image: ", "Job was cancelled">>)) EXCEPT !.pc = "end"]]
  /\ UNCHANGED << os, featureStatus, moduleVars, gate >>

\* ------------------------------------------------------- iOS: classifyImage
\* strings for which [NSURL URLWithString:] returns nil
MalformedUrlPaths == {"/bad uri.jpg", "/photo 1.jpg"}

NoUrl == "nil"

\* urlFromImageUri: the path of the NSURL, or nil
UrlFromImageUri(uri) ==
  IF StartsWithFile(uri)
    THEN IF uri[2] \in MalformedUrlPaths THEN NoUrl ELSE PercentDecode(uri[2])
    ELSE uri[1]

\* observations the Vision request may return; meets is the answer of
\* hasMinimumPrecision:forRecall: for the observation
VisionOutputs ==
  { <<>>,
    << [identifier |-> "cat", confidence |-> 80, meets |-> TRUE],
       [identifier |-> "sofa", confidence |-> 40, meets |-> TRUE],
       [identifier |-> "dog", confidence |-> 60, meets |-> FALSE] >> }

\* [options[@"key"] doubleValue] ?: 0
OptionOrZero(options, key) == IF HasKey(options, key) THEN options[key] ELSE 0

DictPut(dict, key, value) ==
  [ k \in DOMAIN dict \cup {key} |-> IF k = key THEN value ELSE dict[k] ]

\* lines 116-134: the Vision labels kept in labelsDict
RECURSIVE VisionDict(_, _, _)
VisionDict(observations, minimumConfidence, dict) ==
  IF observations = <<>> THEN dict
  ELSE LET observation == Head(observations)
       IN VisionDict(Tail(observations), minimumConfidence,
            IF observation.confidence < minimumConfidence THEN dict
            ELSE IF observation.meets
              THEN DictPut(dict, observation.identifier, observation.confidence)
              ELSE dict)

\* a merge step in which the ML Kit label always replaces the Vision label
MergeLabelOverwrite(dict, label) ==
  DictPut(dict, label.text, label.confidence)

\* lines 176-186: one ML Kit label put into labelsDict
MergeLabel(dict, label) ==
  IF label.text \in DOMAIN dict
    THEN IF label.confidence > dict[label.text]
           THEN DictPut(dict, label.text, label.confidence) ELSE dict
    ELSE DictPut(dict, label.text, label.confidence)

\* lines 166-187: ML Kit labels merged into labelsDict
RECURSIVE MergeMlKit(_, _)
MergeMlKit(mlkitLabels, dict) ==
  IF mlkitLabels = <<>> THEN dict
  ELSE MergeMlKit(Tail(mlkitLabels), MergeLabel(dict, Head(mlkitLabels)))

\* an iosUseMlKit that is NO unless the option is present and true
IosUseMlKitDefaultNo(options) ==
  IF HasKey(options, "iosUseMlKit") THEN options.iosUseMlKit = 1 ELSE FALSE

\* iosUseMlKit: YES unless the option is present and false
IosUseMlKit(options) ==
  IF HasKey(options, "iosUseMlKit") THEN options.iosUseMlKit = 1 ELSE TRUE

\* a merge that takes the labels although the labeler reported an error
MlKitResultsDespiteError(useMlKit, labeling, mlkitOk, minimumConfidence) ==
  IF useMlKit THEN LabelerOutput(labeling, minimumConfidence) ELSE <<>>

\* lines 156-162: the labels that reach the merge; none when ML Kit is
\* skipped or when resultsInImage sets mlkitError
MlKitResults(useMlKit, labeling, mlkitOk, minimumConfidence) ==
  IF useMlKit /\ mlkitOk THEN LabelerOutput(labeling, minimumConfidence) ELSE <<>>

\* the enumeration orders of the dictionary, left unsorted
FinalOrdersUnsorted(dict) ==
  LET n == Cardinality(DOMAIN dict)
  IN { order \in [1..n -> DOMAIN dict] :
         \A i, j \in 1..n : i # j => order[i] # order[j] }

\* lines 196-212: the dictionary is enumerated in an unspecified order and
\* sorted by confidence descending; every order the sort can leave
FinalOrders(dict) ==
  LET n == Cardinality(DOMAIN dict)
  IN { order \in [1..n -> DOMAIN dict] :
         /\ \A i, j \in 1..n : i # j => order[i] # order[j]
         /\ \A i, j \in 1..n : i < j => dict[order[i]] >= dict[order[j]] }

\* lines 214-225: the max results limit and the result map
ClassifySuccessIos(dict, order, maxResults) ==
  LET finalLabels == [ i \in 1..Len(order) |->
                         [ identifier |-> order[i], confidence |-> dict[order[i]] ] ]
  IN [ success |-> TRUE,
       labels |-> IF maxResults > 0 /\ Len(finalLabels) > maxResults
                    THEN SubSeq(finalLabels, 1, maxResults) ELSE finalLabels ]

\* the whole of the iOS classifyImage method, which settles synchronously;
\* the providers answer with one of visionOutputs and one of labelings
NativeClassifyImageIosFrom(c, visionOutputs, labelings) ==
  /\ os = "ios"
  /\ calls[c].op = "classify" /\ calls[c].pc = "bridge"
  /\ LET call == calls[c]
         minimumConfidence == OptionOrZero(call.options, "minimumConfidence")
         maxResults == OptionOrZero(call.options, "maxResults")
         path == UrlFromImageUri(call.uri)
     IN IF path = NoUrl
          THEN calls' = [calls EXCEPT ![c] =
                 [Settle(@, Rejected("invalid_uri", <<"Invalid image URI">>))
                  EXCEPT !.pc = "end"]]
        ELSE IF path \notin ExistingFiles
          THEN calls' = [calls EXCEPT ![c] =
                 [Settle(@, Rejected("image_load_failed",
                    <<"Failed to load image from path: ", path>>))
                  EXCEPT !.pc = "end"]]
        ELSE \/ calls' = [calls EXCEPT ![c] =
                   [Settle(@, Rejected("classification_failed", <<ProviderMessage>>))
                    EXCEPT !.pc = "end"]]
             \/ \E observations \in visionOutputs, mlkit \in labelings,
                   mlkitOk \in BOOLEAN :
                  LET visionDict == VisionDict(observations, minimumConfidence, <<>>)
                      mlkitLabels ==
                        MlKitResults(IosUseMlKit(call.options), mlkit, mlkitOk,
                                     minimumConfidence)
                      labelsDict == MergeMlKit(mlkitLabels, visionDict)
                  IN \E order \in FinalOrders(labelsDict) :
                       calls' = [calls EXCEPT ![c] =
                         [Settle([@ EXCEPT !.observations = observations,
                                           !.mlkitLabels = mlkitLabels,
                                           !.mlkit =
                                             IF ~IosUseMlKit(call.options) THEN "none"
                                             ELSE IF mlkitOk THEN "labels"
                                             ELSE "error"],
                            Resolved(ClassifySuccessIos(labelsDict, order, maxResults)))
                          EXCEPT !.pc = "end"]]
  \* line 154: a labeler is constructed in every call that reaches ML Kit
  /\ nHandles' = IF calls'[c].native.kind = "resolve" /\ IosUseMlKit(calls[c].options)
                   THEN nHandles + 1 ELSE nHandles
  /\ UNCHANGED << os, featureStatus, imageLabeler, imageDescriber, labelerThreshold,
                  scopeActive, closedHandles, invalidations, gate >>

NativeClassifyImageIos(c) == NativeClassifyImageIosFrom(c, VisionOutputs, RawLabelings)

\* ------------------------------------------- facade: after the native promise
\* error instanceof Error ? error.message : String(error); a native rejection
\* reaches JS as an Error whose message is the message passed to reject
ErrorText(error) == error.message

\* a catch block that reports the failure with success: true
ClassifyCatchSuccess(error) ==
  [ success |-> TRUE, labels |-> <<>>, error |-> ErrorText(error) ]

ClassifyCatch(error) ==
  [ success |-> FALSE, labels |-> <<>>, error |-> ErrorText(error) ]

\* a catch block that reports the failure with success: true
DescribeCatchSuccess(error) ==
  [ success |-> TRUE, description |-> "", error |-> ErrorText(error) ]

DescribeCatch(error) ==
  [ success |-> FALSE, description |-> "", error |-> ErrorText(error) ]

\* a catch block that reports the failed query as not_supported
StatusCatchNotSupported(error) == "not_supported"

StatusCatch(error) == "not_available"

\* a catch block that reports the failed download as done
DownloadCatchTrue(error) == TRUE

DownloadCatch(error) == FALSE

\* a facade without the try/catch: the native rejection reaches the caller
FacadeReturnRethrow(call) ==
  IF call.native.kind = "resolve" THEN Resolved(call.native.value) ELSE call.native

\* the value the facade function returns once the native promise has settled
FacadeReturn(call) ==
  IF call.native.kind = "resolve" THEN Resolved(call.native.value)
  ELSE CASE call.op = "classify" -> Resolved(ClassifyCatch(call.native))
         [] call.op = "describe" -> Resolved(DescribeCatch(call.native))
         [] call.op = "status" -> Resolved(StatusCatch(call.native))
         [] call.op = "download" -> Resolved(DownloadCatch(call.native))

\* the errors the catch block passes to console.error
FacadeLogged(call) ==
  IF call.native.kind = "reject" /\ call.op \in {"status", "download"}
    THEN <<call.native>> ELSE <<>>

\* a finally block that leaves the listener attached
FinallyLeavesListener(call) == call.subscribed

\* finally { if (subscription) subscription.remove() }: is the listener
\* still attached afterwards
Finally(call) == FALSE

\* the continuation of the await: try/finally/catch and the return
FacadeSettle(c) ==
  /\ calls[c].native.kind # "pending"
  /\ calls[c].result.kind = "pending"
  /\ calls' = [calls EXCEPT ![c] =
       [@ EXCEPT !.result = FacadeReturn(calls[c]),
                 !.logged = FacadeLogged(calls[c]),
                 !.subscribed = Finally(calls[c])]]
  /\ gate' = IF calls[c].op = "status" /\ FacadeReturn(calls[c]) = Resolved("downloadable")
              THEN TRUE ELSE gate
  /\ UNCHANGED << os, featureStatus, moduleVars >>

\* ------------------------------------------------------------ specification
Next ==
  \/ \E uri \in Locators, options \in ClassifyOptions : CallClassifyImage(uri, options)
  \/ \E uri \in Locators : CallDescribeImage(uri)
  \/ CallCheckDescriptionModelStatus
  \/ \E hasCb \in BOOLEAN : CallDownloadDescriptionModel(hasCb)
  \/ \E c \in CallIds : NativeClassifyImage(c)
  \/ \E c \in CallIds : ClassifyCoroutine(c)
  \/ \E c \in CallIds : ClassifyProcessDone(c)
  \/ \E c \in CallIds : ClassifyCancelled(c)
  \/ \E c \in CallIds : NativeClassifyImageIos(c)
  \/ \E c \in CallIds : NativeDescribeImage(c)
  \/ \E c \in CallIds : DescribeStatusListener(c)
  \/ \E c \in CallIds : DescribeInferenceListener(c)
  \/ \E c \in CallIds : NativeCheckDescriptionModelStatus(c)
  \/ \E c \in CallIds : CheckStatusListener(c)
  \/ \E c \in CallIds : NativeDownloadDescriptionModel(c)
  \/ \E c \in CallIds : DownloadStatusListener(c)
  \/ \E c \in CallIds : OnDownloadStarted(c)
  \/ \E c \in CallIds : OnDownloadProgress(c)
  \/ \E c \in CallIds : OnDownloadCompleted(c)
  \/ \E c \in CallIds : OnDownloadFailed(c)
  \/ \E status \in FeatureStatuses : ProviderStatusChange(status)
  \/ Invalidate
  \/ \E c \in CallIds : FacadeSettle(c)

Spec == Init /\ [][Next]_vars

\* ------------------------------------ classifyImage as a function of its inputs
\* One classifyImage call on an existing image, with the option maps and the
\* provider answers drawn from larger sets.  The engines return ranked labels
\* (confidence descending) with one label per identifier.

\* option maps of the single call
MergeOptions ==
  [ confidenceThreshold : {NoOpt, 70}, maxResults : {NoOpt, -2, 0, 1, 2},
    minimumConfidence : {NoOpt, 50, 80}, iosUseMlKit : {NoOpt, 0, 1} ]

\* VNClassificationObservation results of the Vision request
MergeObservations ==
  LET one == [ identifier : {"a", "b"}, confidence : {40, 60, 90}, meets : BOOLEAN ]
  IN {<<>>} \cup { <<x>> : x \in one } \cup
     { pair \in one \X one : /\ pair[1].identifier # pair[2].identifier
                              /\ pair[1].confidence >= pair[2].confidence }

\* labelings the ML Kit engine may compute
MergeLabelings ==
  LET one == [ text : {"a", "c"}, confidence : {40, 60, 90, 95} ]
  IN {<<>>} \cup { <<x>> : x \in one } \cup
     { pair \in one \X one : /\ pair[1].text # pair[2].text
                              /\ pair[1].confidence >= pair[2].confidence }

LabelsInit == Init /\ featureStatus = "UNAVAILABLE"

\* the only call of the run
ClassifyOnce(options) ==
  /\ calls = <<>>
  /\ CallClassifyImage(<<"/ok.jpg">>, options)

LabelsNext ==
  \/ \E options \in MergeOptions : ClassifyOnce(options)
  \/ \E c \in CallIds : NativeClassifyImage(c)
  \/ \E c \in CallIds : ClassifyCoroutine(c)
  \/ \E c \in CallIds : ClassifyProcessDoneFrom(c, MergeLabelings)
  \/ \E c \in CallIds : NativeClassifyImageIosFrom(c, MergeObservations, MergeLabelings)
  \/ \E c \in CallIds : FacadeSettle(c)

SpecLabels == LabelsInit /\ [][LabelsNext]_vars

\* ------------------------------------------------------------------ claims
Done(c) == calls[c].result.kind # "pending"

ModelStatuses ==
  {"available", "downloadable", "downloading", "not_available", "not_supported"}

\* the file the locator names is not on the device
NonexistentFile(uri) == PercentDecode(uri[Len(uri)]) \notin ExistingFiles

Has(record, fieldName) == fieldName \in DOMAIN record

\* C1: on iOS every describeImage call is resolved, with success = false and
\* modelStatus = "not_supported", whatever the locator and whatever was
\* called before it.
C1_IosDescribeNotSupported ==
  \A c \in CallIds :
    (os = "ios" /\ calls[c].op = "describe") =>
      /\ calls[c].result.kind = "resolve"
      /\ calls[c].result.value.success = FALSE
      /\ Has(calls[c].result.value, "modelStatus")
      /\ calls[c].result.value.modelStatus = "not_supported"

\* an iOS describeImage of a nonexistent path, made after another operation
C1_Witness ==
  /\ os = "ios"
  /\ \E c \in CallIds :
       /\ c > 1 /\ Done(c - 1)
       /\ calls[c].op = "describe" /\ NonexistentFile(calls[c].uri)
       /\ Done(c)

\* C2 as stated: the describeImage call made while the gate holds resolves
\* with success = false and modelStatus = "downloadable" and runs no
\* inference, for every locator and every provider behaviour.
C2_GatedDescribeAlwaysDownloadable ==
  \A c \in CallIds :
    (calls[c].op = "describe" /\ calls[c].gated /\ Done(c)) =>
      /\ calls[c].result.kind = "resolve"
      /\ calls[c].result.value.success = FALSE
      /\ Has(calls[c].result.value, "modelStatus")
      /\ calls[c].result.value.modelStatus = "downloadable"
      /\ calls[c].inference = 0

\* C2 amended: the describeImage call made while the gate holds, whose own
\* status check still observes DOWNLOADABLE, resolves with success = false
\* and modelStatus = "downloadable" and runs no inference.
C2_GatedDescribeObservingDownloadable ==
  \A c \in CallIds :
    (calls[c].op = "describe" /\ calls[c].gated
       /\ calls[c].observed = "DOWNLOADABLE") =>
      /\ calls[c].inference = 0
      /\ calls[c].native.kind = "resolve"
      /\ Done(c) =>
           /\ calls[c].result.kind = "resolve"
           /\ calls[c].result.value.success = FALSE
           /\ Has(calls[c].result.value, "modelStatus")
           /\ calls[c].result.value.modelStatus = "downloadable"

C2_Witness ==
  \E c \in CallIds :
    /\ calls[c].op = "describe" /\ calls[c].gated
    /\ calls[c].observed = "DOWNLOADABLE" /\ Done(c)

\* C3 as stated: classifyImage of a nonexistent file resolves with
\* success = false and an error that mentions image_load_failed.
C3_MissingFileMentionsImageLoadFailed ==
  \A c \in CallIds :
    (calls[c].op = "classify" /\ NonexistentFile(calls[c].uri) /\ Done(c)) =>
      /\ calls[c].result.kind = "resolve"
      /\ calls[c].result.value.success = FALSE
      /\ Has(calls[c].result.value, "error")
      /\ Mentions(calls[c].result.value.error, "image_load_failed")

\* C4: classifyImage, describeImage and checkDescriptionModelStatus never
\* reject: a native rejection becomes a resolved success = false result with
\* a populated error, or a ModelStatus string.
C4_ReadOperationsNeverReject ==
  \A c \in CallIds :
    calls[c].op \in {"classify", "describe", "status"} =>
      /\ calls[c].result.kind \in {"pending", "resolve"}
      /\ (Done(c) /\ calls[c].native.kind = "reject") =>
           IF calls[c].op = "status"
             THEN calls[c].result.value \in ModelStatuses
             ELSE /\ calls[c].result.value.success = FALSE
                  /\ Has(calls[c].result.value, "error")
                  /\ calls[c].result.value.error # <<>>

\* a failed inference and a failed status check, both returned by the facade
C4_Witness ==
  /\ \E c \in CallIds :
       /\ calls[c].op = "describe" /\ Done(c)
       /\ calls[c].native.kind = "reject" /\ calls[c].inference = 1
  /\ \E c \in CallIds :
       /\ calls[c].op = "status" /\ Done(c)
       /\ calls[c].native.kind = "reject"

\* C5: a downloadDescriptionModel call whose status check observes AVAILABLE
\* resolves true, never invokes downloadFeature and emits no progress event.
C5_DownloadWhenAvailable ==
  \A c \in CallIds :
    (calls[c].op = "download" /\ calls[c].observed = "AVAILABLE") =>
      /\ calls[c].native = Resolved(TRUE)
      /\ calls[c].downloadInvoked = 0
      /\ calls[c].emitted = <<>>
      /\ Done(c) => calls[c].result = Resolved(TRUE)

C5_Witness ==
  \E c \in CallIds :
    calls[c].op = "download" /\ calls[c].observed = "AVAILABLE" /\ Done(c)

\* C6 as stated: the provider never has two download operations that have
\* neither completed nor failed.
C6_SingleFlightDownload == Cardinality(ActiveDownloads) <= 1

\* C7: a download call's outcome is true only if its check observed AVAILABLE
\* or its callback reported completion; a call that met a failure is rejected
\* natively and returns false.
C7_DownloadOutcome ==
  \A c \in CallIds :
    calls[c].op = "download" =>
      /\ calls[c].native.kind = "resolve" =>
           /\ calls[c].native.value = TRUE
           /\ calls[c].observed = "AVAILABLE" \/ calls[c].terminal = "completed"
      /\ calls[c].terminal = "failed" => calls[c].native.kind = "reject"
      /\ calls[c].terminal = "completed" => calls[c].native = Resolved(TRUE)
      /\ Done(c) =>
           /\ calls[c].result.kind = "resolve"
           /\ calls[c].result.value = TRUE =>
                (calls[c].observed = "AVAILABLE" \/ calls[c].terminal = "completed")
           /\ calls[c].native.kind = "reject" => calls[c].result.value = FALSE

\* a download the provider failed and a download the provider completed
C7_Witness ==
  /\ \E c \in CallIds :
       calls[c].op = "download" /\ calls[c].terminal = "failed" /\ Done(c)
  /\ \E c \in CallIds :
       calls[c].op = "download" /\ calls[c].terminal = "completed" /\ Done(c)

\* C8: a download call whose status check observes a status other than
\* AVAILABLE, DOWNLOADABLE and DOWNLOADING is rejected with an error that
\* carries the status, which the facade logs before returning false, and
\* downloadFeature is not invoked.
C8_DownloadInvalidState ==
  \A c \in CallIds :
    (calls[c].op = "download"
       /\ calls[c].observed \notin {"none", "AVAILABLE", "DOWNLOADABLE", "DOWNLOADING"}) =>
      /\ calls[c].downloadInvoked = 0
      /\ calls[c].native.kind = "reject"
      /\ Mentions(calls[c].native.message, calls[c].observed)
      /\ Done(c) =>
           /\ calls[c].result = Resolved(FALSE)
           /\ calls[c].logged = <<calls[c].native>>

C8_Witness ==
  \E c \in CallIds :
    calls[c].op = "download" /\ calls[c].observed = "UNAVAILABLE" /\ Done(c)

\* C9: every ClassificationResult returned has no labels when success is
\* false and no error when success is true.
C9_ClassificationResultShape ==
  \A c \in CallIds :
    (calls[c].op = "classify" /\ Done(c)) =>
      /\ calls[c].result.kind = "resolve"
      /\ calls[c].result.value.success = FALSE => calls[c].result.value.labels = <<>>
      /\ calls[c].result.value.success = TRUE => ~Has(calls[c].result.value, "error")

\* a failed classification and a successful one that returned labels
C9_Witness ==
  /\ \E c \in CallIds :
       /\ calls[c].op = "classify" /\ Done(c)
       /\ calls[c].result.value.success = FALSE
  /\ \E c \in CallIds :
       /\ calls[c].op = "classify" /\ Done(c)
       /\ calls[c].result.value.success = TRUE
       /\ calls[c].result.value.labels # <<>>

\* C10 as stated: every describeImage result with success = true has a
\* non-empty description and no error.
C10_SuccessHasDescription ==
  \A c \in CallIds :
    (calls[c].op = "describe" /\ Done(c) /\ calls[c].result.value.success = TRUE) =>
      /\ calls[c].result.value.description # ""
      /\ ~Has(calls[c].result.value, "error")


\* ------------------------------------------------- the labeler across calls
\* Android classifyImage calls on one image that differ in the
\* confidenceThreshold they pass.
ThresholdOptions ==
  [ confidenceThreshold : {NoOpt, 30, 70}, maxResults : {NoOpt},
    minimumConfidence : {NoOpt}, iosUseMlKit : {NoOpt} ]

ThresholdInit == Init /\ os = "android" /\ featureStatus = "UNAVAILABLE"

ThresholdNext ==
  \/ \E options \in ThresholdOptions : CallClassifyImage(<<"/ok.jpg">>, options)
  \/ \E c \in CallIds : NativeClassifyImage(c)
  \/ \E c \in CallIds : ClassifyCoroutine(c)
  \/ \E c \in CallIds : ClassifyProcessDone(c)
  \/ \E c \in CallIds : FacadeSettle(c)

SpecThreshold == ThresholdInit /\ [][ThresholdNext]_vars

\* ------------------------------------------------------- the image locators
\* One classifyImage or describeImage call, with the locator drawn from the
\* forms a caller can write for a file: the bare path, the file:// URI with
\* the path percent-encoded, and file:// put in front of the path as it is.
LocatorForms ==
  UNION { { <<path>>, <<"file://", PercentEncode(path)>>, <<"file://", path>> } :
          path \in {"/ok.jpg", "/missing.jpg", "/photo 1.jpg"} }

LocatorsNext ==
  \/ \E uri \in LocatorForms : calls = <<>> /\ CallClassifyImage(uri, NoOptions)
  \/ \E uri \in LocatorForms : calls = <<>> /\ CallDescribeImage(uri)
  \/ \E c \in CallIds : NativeClassifyImage(c)
  \/ \E c \in CallIds : ClassifyCoroutine(c)
  \/ \E c \in CallIds : ClassifyProcessDone(c)
  \/ \E c \in CallIds : NativeClassifyImageIos(c)
  \/ \E c \in CallIds : NativeDescribeImage(c)
  \/ \E c \in CallIds : DescribeStatusListener(c)
  \/ \E c \in CallIds : DescribeInferenceListener(c)
  \/ \E c \in CallIds : FacadeSettle(c)

SpecLocators == Init /\ [][LocatorsNext]_vars

\* ------------------------------------------------------- the download sessions
\* downloadDescriptionModel alone, with longer sessions: up to MaxSessionProgress
\* progress events of up to MaxSessionBytes bytes.
DownloadNext ==
  \/ \E hasCb \in BOOLEAN : CallDownloadDescriptionModel(hasCb)
  \/ \E c \in CallIds : NativeDownloadDescriptionModel(c)
  \/ \E c \in CallIds : DownloadStatusListener(c)
  \/ \E c \in CallIds : OnDownloadStartedUpTo(c, MaxSessionBytes)
  \/ \E c \in CallIds : OnDownloadProgressWithin(c, MaxSessionProgress)
  \/ \E c \in CallIds : OnDownloadCompleted(c)
  \/ \E c \in CallIds : OnDownloadFailed(c)
  \/ \E c \in CallIds : FacadeSettle(c)

SpecDownload == Init /\ [][DownloadNext]_vars

\* ------------------------------------------------ the module across teardowns
\* The Android module with one image and default options, and with
\* invalidate() called up to MaxTeardowns times between the calls.
TeardownInit == Init /\ os = "android"

TeardownNext ==
  \/ CallClassifyImage(<<"/ok.jpg">>, NoOptions)
  \/ CallDescribeImage(<<"/ok.jpg">>)
  \/ CallCheckDescriptionModelStatus
  \/ CallDownloadDescriptionModel(TRUE)
  \/ \E c \in CallIds : NativeClassifyImage(c)
  \/ \E c \in CallIds : ClassifyCoroutine(c)
  \/ \E c \in CallIds : ClassifyProcessDone(c)
  \/ \E c \in CallIds : ClassifyCancelled(c)
  \/ \E c \in CallIds : NativeDescribeImage(c)
  \/ \E c \in CallIds : DescribeStatusListener(c)
  \/ \E c \in CallIds : DescribeInferenceListener(c)
  \/ \E c \in CallIds : NativeCheckDescriptionModelStatus(c)
  \/ \E c \in CallIds : CheckStatusListener(c)
  \/ \E c \in CallIds : NativeDownloadDescriptionModel(c)
  \/ \E c \in CallIds : DownloadStatusListener(c)
  \/ \E c \in CallIds : OnDownloadStarted(c)
  \/ \E c \in CallIds : OnDownloadProgress(c)
  \/ \E c \in CallIds : OnDownloadCompleted(c)
  \/ \E c \in CallIds : OnDownloadFailed(c)
  \/ InvalidateWithin(MaxTeardowns)
  \/ \E c \in CallIds : FacadeSettle(c)

SpecTeardown == TeardownInit /\ [][TeardownNext]_vars

\* the bridge runs every queued native method, the main looper runs every
\* posted listener and coroutine, the providers answer every request, and the
\* JS event loop resumes every settled await
TeardownFairness ==
  /\ \A c \in 1..MaxCalls :
       /\ WF_vars(c \in CallIds /\ NativeClassifyImage(c))
       /\ WF_vars(c \in CallIds /\ ClassifyCoroutine(c))
       /\ WF_vars(c \in CallIds /\ ClassifyProcessDone(c))
       /\ WF_vars(c \in CallIds /\ ClassifyCancelled(c))
       /\ WF_vars(c \in CallIds /\ NativeDescribeImage(c))
       /\ WF_vars(c \in CallIds /\ DescribeStatusListener(c))
       /\ WF_vars(c \in CallIds /\ DescribeInferenceListener(c))
       /\ WF_vars(c \in CallIds /\ NativeCheckDescriptionModelStatus(c))
       /\ WF_vars(c \in CallIds /\ CheckStatusListener(c))
       /\ WF_vars(c \in CallIds /\ NativeDownloadDescriptionModel(c))
       /\ WF_vars(c \in CallIds /\ DownloadStatusListener(c))
       /\ WF_vars(c \in CallIds /\ (OnDownloadCompleted(c) \/ OnDownloadFailed(c)))
       /\ WF_vars(c \in CallIds /\ FacadeSettle(c))

SpecTeardownFair == SpecTeardown /\ TeardownFairness

\* ------------------------------------------------------ claims about teardown
\* C17: an invalidate() leaves both handles absent and every handle
\* constructed so far closed exactly once, whatever invalidate() calls came
\* before it.
C17_TeardownReleasesOnce ==
  [][ invalidations' = invalidations + 1 =>
        /\ imageLabeler' = 0
        /\ imageDescriber' = 0
        /\ \A h \in 1..nHandles' :
             Cardinality({ i \in 1..Len(closedHandles') : closedHandles'[i] = h }) = 1
    ]_vars

\* a second invalidate() has closed a handle constructed after the first
C17_Witness ==
  /\ invalidations = 2
  /\ nHandles = 2
  /\ closedHandles = <<1, 2>>
  /\ imageLabeler = 0 /\ imageDescriber = 0

\* C18: once invalidate() has returned, a call started before it invokes no
\* inference and no download, and a download started before it emits no
\* progress event and does not complete.
C18_TeardownCancelsInFlightWork ==
  [][ \A c \in CallIds :
        calls[c].epoch < invalidations =>
          /\ calls'[c].inference = calls[c].inference
          /\ calls'[c].downloadInvoked = calls[c].downloadInvoked
          /\ calls'[c].emitted = calls[c].emitted
          /\ (calls'[c].terminal = "completed" => calls[c].terminal = "completed")
    ]_vars

\* C19: every call, whatever calls and invalidate() came before it, eventually
\* settles when the providers answer.
C19_EveryCallSettles ==
  \A c \in 1..MaxCalls : (c \in CallIds) ~> (c \in CallIds /\ Done(c))

\* C20: a status query that succeeds resolves with the mapping of the
\* provider's status at that moment, and the facade returns that value.
C20_StatusIsLiveQuery ==
  [][ \A c \in CallIds :
        calls[c].op = "status" =>
          /\ (calls[c].native.kind = "pending" /\ calls'[c].native.kind = "resolve")
               => calls'[c].native.value =
                    [ AVAILABLE |-> "available", DOWNLOADABLE |-> "downloadable",
                      DOWNLOADING |-> "downloading",
                      UNAVAILABLE |-> "not_available" ][featureStatus]
          /\ (calls[c].native.kind = "resolve" /\ ~Done(c) /\ calls'[c].result.kind # "pending")
               => calls'[c].result = Resolved(calls[c].native.value)
    ]_vars

\* a query returns downloadable after an earlier query returned downloading
C20_Witness ==
  \E c1, c2 \in CallIds :
    /\ c1 < c2
    /\ calls[c1].op = "status" /\ calls[c2].op = "status"
    /\ Done(c1) /\ Done(c2)
    /\ calls[c1].observed = "DOWNLOADING" /\ calls[c1].result = Resolved("downloading")
    /\ calls[c2].observed = "DOWNLOADABLE" /\ calls[c2].result = Resolved("downloadable")

\* ------------------------------------------------- claims about classifyImage
\* the facade call has returned a successful classification result
ClassifySucceeded(c) ==
  /\ calls[c].op = "classify"
  /\ Done(c)
  /\ calls[c].result.value.success

Labels(c) == calls[c].result.value.labels

Identifiers(labels) == { labels[i].identifier : i \in 1..Len(labels) }

\* the primary source: the Vision observations that pass the precision filter
\* and reach the minimum confidence of the call
PrimaryLabels(c) ==
  { [ identifier |-> calls[c].observations[i].identifier,
      confidence |-> calls[c].observations[i].confidence ] :
      i \in { k \in 1..Len(calls[c].observations) :
                /\ calls[c].observations[k].meets
                /\ calls[c].observations[k].confidence >=
                     OptionOrZero(calls[c].options, "minimumConfidence") } }

\* the secondary source: the labels the ML Kit labeler returned
SecondaryLabels(c) ==
  { [ identifier |-> calls[c].mlkitLabels[i].text,
      confidence |-> calls[c].mlkitLabels[i].confidence ] :
      i \in 1..Len(calls[c].mlkitLabels) }

Qualifying(c) == PrimaryLabels(c) \cup SecondaryLabels(c)

\* C11: on iOS the merged result holds each identifier once; a label of the
\* result is a label of one of the two sources and no source holds the same
\* identifier with a higher confidence; without a max results limit every
\* qualifying identifier is in the result.
C11_MergeByIdentifier ==
  \A c \in CallIds :
    (os = "ios" /\ ClassifySucceeded(c)) =>
      /\ \A i, j \in 1..Len(Labels(c)) :
           i # j => Labels(c)[i].identifier # Labels(c)[j].identifier
      /\ \A i \in 1..Len(Labels(c)) :
           /\ Labels(c)[i] \in Qualifying(c)
           /\ \A x \in Qualifying(c) :
                x.identifier = Labels(c)[i].identifier
                  => x.confidence <= Labels(c)[i].confidence
      /\ OptionOrZero(calls[c].options, "maxResults") <= 0
           => Identifiers(Labels(c)) = { x.identifier : x \in Qualifying(c) }

\* the example: S1 = [(a,0.9),(b,0.4)], S2 = [(a,0.95),(c,0.6)], minimum 0.5
C11_Witness ==
  \E c \in CallIds :
    /\ os = "ios" /\ ClassifySucceeded(c)
    /\ calls[c].options.minimumConfidence = 50
    /\ calls[c].observations =
         << [identifier |-> "a", confidence |-> 90, meets |-> TRUE],
            [identifier |-> "b", confidence |-> 40, meets |-> TRUE] >>
    /\ calls[c].mlkitLabels =
         << [text |-> "a", confidence |-> 95], [text |-> "c", confidence |-> 60] >>
    /\ Labels(c) = << [identifier |-> "a", confidence |-> 95],
                      [identifier |-> "c", confidence |-> 60] >>

\* C12: no label of a successful classifyImage result has a confidence below
\* the minimumConfidence option of the call, on both platforms.
C12_NoLabelBelowMinimumConfidence ==
  \A c \in CallIds :
    (ClassifySucceeded(c) /\ HasKey(calls[c].options, "minimumConfidence")) =>
      \A i \in 1..Len(Labels(c)) :
        Labels(c)[i].confidence >= calls[c].options.minimumConfidence

\* C13: the labels of a successful classifyImage result are in descending
\* order of confidence.
C13_LabelsDescending ==
  \A c \in CallIds :
    ClassifySucceeded(c) =>
      \A i \in 1..(Len(Labels(c)) - 1) :
        Labels(c)[i].confidence >= Labels(c)[i + 1].confidence

\* a label only ML Kit returned sorted in front of a Vision label
C13_Witness ==
  \E c \in CallIds :
    /\ os = "ios" /\ ClassifySucceeded(c)
    /\ Len(Labels(c)) = 2
    /\ Labels(c)[1].identifier = "c"
    /\ Labels(c)[2] \in PrimaryLabels(c)
    /\ Labels(c)[1].confidence > Labels(c)[2].confidence

\* the source an identifier's merged entry comes from: 1 for Vision (kept on
\* a tie), 2 for ML Kit
EntrySource(c, identifier) ==
  IF \E x \in PrimaryLabels(c) :
       /\ x.identifier = identifier
       /\ \A y \in SecondaryLabels(c) :
            y.identifier = identifier => y.confidence <= x.confidence
    THEN 1 ELSE 2

\* the position of the identifier in the source its entry comes from
EntryPosition(c, identifier) ==
  IF EntrySource(c, identifier) = 1
    THEN CHOOSE k \in 1..Len(calls[c].observations) :
           calls[c].observations[k].identifier = identifier
    ELSE CHOOSE k \in 1..Len(calls[c].mlkitLabels) :
           calls[c].mlkitLabels[k].text = identifier

\* source priority, then original order
Precedes(c, id1, id2) ==
  \/ EntrySource(c, id1) < EntrySource(c, id2)
  \/ /\ EntrySource(c, id1) = EntrySource(c, id2)
     /\ EntryPosition(c, id1) < EntryPosition(c, id2)

\* C14: on iOS labels of equal confidence are in the order of source priority
\* and then of original order, and a qualifying label left out by the limit
\* comes after every label kept, in that same order.
C14_TieOrderBySourcePriority ==
  \A c \in CallIds :
    (os = "ios" /\ ClassifySucceeded(c)) =>
      /\ \A i, j \in 1..Len(Labels(c)) :
           (i < j /\ Labels(c)[i].confidence = Labels(c)[j].confidence)
             => Precedes(c, Labels(c)[i].identifier, Labels(c)[j].identifier)
      /\ \A x \in Qualifying(c) :
           x.identifier \notin Identifiers(Labels(c)) =>
             \A i \in 1..Len(Labels(c)) :
               \/ Labels(c)[i].confidence > x.confidence
               \/ /\ Labels(c)[i].confidence = x.confidence
                  /\ Precedes(c, Labels(c)[i].identifier, x.identifier)

Min(a, b) == IF a < b THEN a ELSE b

\* C15: with maxResults > 0 the result holds min(maxResults, number of
\* qualifying identifiers) labels, in descending order, and no label left out
\* has a higher confidence than a label kept; with maxResults <= 0 or absent
\* the result holds every qualifying identifier.
C15_Truncation ==
  \A c \in CallIds :
    ClassifySucceeded(c) =>
      LET maxResults == OptionOrZero(calls[c].options, "maxResults")
          qualifying == { x.identifier : x \in Qualifying(c) }
      IN IF maxResults > 0
           THEN /\ Len(Labels(c)) = Min(maxResults, Cardinality(qualifying))
                /\ \A i \in 1..(Len(Labels(c)) - 1) :
                     Labels(c)[i].confidence >= Labels(c)[i + 1].confidence
                /\ \A x \in Qualifying(c) :
                     x.identifier \notin Identifiers(Labels(c)) =>
                       \A i \in 1..Len(Labels(c)) :
                         Labels(c)[i].confidence >= x.confidence
           ELSE /\ Len(Labels(c)) = Cardinality(qualifying)
                /\ Identifiers(Labels(c)) = qualifying

\* an Android result cut to one label out of two returned by the labeler
C15_Witness ==
  \E c \in CallIds :
    /\ os = "android" /\ ClassifySucceeded(c)
    /\ calls[c].options.maxResults = 1
    /\ Len(calls[c].mlkitLabels) = 2
    /\ Len(Labels(c)) = 1

C21_NotSupportedIsIosOnly ==
  \A c \in CallIds :
    (calls[c].op = "status" /\ Done(c)) =>
      (os = "ios" <=> calls[c].result = Resolved("not_supported"))

\* the query follows a downloadDescriptionModel call on iOS
C21_Witness ==
  \E c \in CallIds :
    /\ os = "ios"
    /\ c > 1 /\ calls[c - 1].op = "download" /\ Done(c - 1)
    /\ calls[c].op = "status" /\ calls[c].result = Resolved("not_supported")

\* --------------------------------------------- claims about download progress
\* C22: every argument onProgress is invoked with is a number between 0 and 1.
C22_ProgressIsFraction ==
  \A c \in CallIds :
    \A i \in 1..Len(calls[c].progress) :
      /\ calls[c].progress[i].kind = "number"
      /\ calls[c].progress[i].value >= 0
      /\ calls[c].progress[i].value <= 1

C24_NoSubscriptionLeak ==
  \A c \in CallIds :
    /\ calls[c].subscribed =>
         (os = "android" /\ calls[c].op = "download" /\ calls[c].hasCb)
    /\ Done(c) => ~calls[c].subscribed

\* a call whose listener received events has settled after a native rejection
C24_Witness ==
  \E c \in CallIds :
    /\ calls[c].op = "download" /\ calls[c].hasCb
    /\ Len(calls[c].progress) > 0
    /\ calls[c].native.kind = "reject"
    /\ Done(c)
    /\ ~calls[c].subscribed

C25_LoadFailureInvokesNoProvider ==
  \A c \in CallIds :
    (calls[c].op \in {"classify", "describe"} /\ NonexistentFile(calls[c].uri)) =>
      /\ calls[c].pc \notin {"process", "status", "inference"}
      /\ calls[c].inference = 0
      /\ calls[c].observed = "none"
      /\ calls[c].observations = <<>> /\ calls[c].mlkitLabels = <<>>
      /\ Done(c) => ~calls[c].result.value.success

\* an Android describeImage whose describer was built and whose image is missing
C25_Witness ==
  \E c \in CallIds :
    /\ os = "android" /\ calls[c].op = "describe"
    /\ NonexistentFile(calls[c].uri)
    /\ imageDescriber # 0
    /\ Done(c)
    /\ calls[c].native.kind = "reject" /\ calls[c].native.code = "image_load_failed"

\* the file a locator names: the path itself, or the decoded path of the URI
FileNamedBy(uri) == IF uri[1] = "file://" THEN PercentDecode(uri[2]) ELSE uri[1]

\* a file:// locator is a URI when its path holds no character a URL excludes
WellFormed(uri) == uri[1] = "file://" => uri[2] \notin MalformedUrlPaths

\* the native method gave up on the locator or on the image
LoadRejected(call) ==
  /\ call.native.kind = "reject"
  /\ call.native.code \in {"image_load_failed", "invalid_uri"}

FailureValue(call) ==
  CASE call.op = "status" -> call.result.value = "not_available"
    [] call.op = "download" -> call.result.value = FALSE
    [] OTHER -> ~call.result.value.success

\* C26: when constructing the describer or the labeler throws, the native
\* method rejects, the handle stays absent and no handle is counted as
\* constructed; the facade turns the rejection into a failure value.
C26_ConstructionFailureIsResultError ==
  [][ \A c \in CallIds :
        /\ (/\ calls[c].op \in {"describe", "status", "download"}
            /\ calls[c].pc = "bridge" /\ calls'[c].pc = "end"
            /\ calls'[c].native.kind = "reject"
            /\ calls'[c].native.code # "image_load_failed")
             => (imageDescriber' = 0 /\ nHandles' = nHandles)
        /\ (/\ calls[c].op = "classify" /\ os = "android"
            /\ calls[c].pc = "coroutine" /\ calls'[c].pc = "end"
            /\ calls'[c].native.code # "image_load_failed")
             => (imageLabeler' = 0 /\ nHandles' = nHandles)
        /\ (calls[c].native.kind = "reject" /\ ~Done(c) /\ calls'[c].result.kind # "pending")
             => (calls'[c].result.kind = "resolve" /\ FailureValue(calls'[c]))
    ]_vars

\* a describeImage failed on construction and the next call built the describer
C26_Witness ==
  \E c \in CallIds :
    /\ c > 1
    /\ calls[c - 1].op = "describe" /\ Done(c - 1)
    /\ calls[c - 1].native.kind = "reject"
    /\ calls[c - 1].native.code = "description_failed"
    /\ calls[c - 1].observed = "none"
    /\ ~calls[c - 1].result.value.success
    /\ calls[c].pc = "status"
    /\ imageDescriber = 1 /\ nHandles = 1

C28_LabelsReachCallThreshold ==
  \A c \in CallIds :
    (os = "android" /\ ClassifySucceeded(c)) =>
      \A i \in 1..Len(Labels(c)) :
        Labels(c)[i].confidence >=
          (IF HasKey(calls[c].options, "confidenceThreshold")
             THEN calls[c].options.confidenceThreshold
             ELSE DefaultConfidenceThreshold)

\* ------------------------------------------------------------------ C31
\* what a describeImage call that saw `status` in its own check settled with
NeedsDownloadText ==
  <<"Model needs to be downloaded. Call downloadDescriptionModel() first.">>

DecidedBy(c, inferenceRun) ==
  LET call == calls[c]
      value == call.native.value
  IN  CASE call.observed = "AVAILABLE" ->
             /\ inferenceRun
             /\ call.inference <= 1
             /\ call.native.kind = "resolve" =>
                  /\ call.inference = 1
                  /\ value.success /\ value.modelStatus = "available"
                  /\ ~Has(value, "error")
             /\ call.native.kind = "reject" =>
                  call.native.code \in {"description_failed", "status_check_failed"}
        [] call.observed \in {"DOWNLOADABLE", "DOWNLOADING"} ->
             /\ call.inference = 0
             /\ call.native.kind = "resolve"
             /\ ~value.success
             /\ value.modelStatus =
                  (IF call.observed = "DOWNLOADING" THEN "downloading"
                                                    ELSE "downloadable")
             /\ value.error = NeedsDownloadText
        [] OTHER ->
             /\ call.inference = 0
             /\ call.native.kind = "resolve"
             /\ ~value.success
             /\ value.modelStatus = "not_available"

C32_ResolvedTrueMeansAvailable ==
  [][ /\ \A c \in CallIds :
           (calls[c].op = "download" /\ calls[c].native.kind = "pending"
              /\ calls'[c].native = Resolved(TRUE)) =>
             featureStatus' = "AVAILABLE"
      /\ (featureStatus = "AVAILABLE" /\ featureStatus' # "AVAILABLE") =>
           \/ calls' = calls
           \/ \E c \in CallIds :
                calls[c].terminal = "none" /\ calls'[c].terminal = "failed"
      /\ \A c \in CallIds :
           (calls[c].observed = "none" /\ calls'[c].observed # "none") =>
             calls'[c].observed = featureStatus
      /\ \A c \in CallIds :
           (calls[c].op = "download" /\ ~Done(c)
              /\ calls'[c].result = Resolved(TRUE)) =>
             calls[c].native = Resolved(TRUE)
    ]_vars

\* a download completed and resolved true, and a status check made by
\* another call answered available
C32_Witness ==
  \E c, d \in CallIds :
    /\ calls[c].op = "download" /\ calls[c].terminal = "completed"
    /\ calls[c].result = Resolved(TRUE)
    /\ calls[d].op = "status" /\ calls[d].observed = "AVAILABLE"
    /\ calls[d].result = Resolved("available")
    /\ featureStatus = "AVAILABLE"

\* ------------------------------------------------------------------ C33
\* the synchronous part of describeImage runs for call c in this step
DescribeEnters(c) ==
  /\ os = "android"
  /\ calls[c].op = "describe"
  /\ calls[c].pc = "bridge" /\ calls'[c].pc # "bridge"

NativeLabels(c) == calls[c].native.value.labels

\* the labels are exactly the primary source's: its filtered labels, sorted by
\* confidence descending, cut to the max results limit of the call
PrimaryOnly(c) ==
  LET labels == NativeLabels(c)
      limit == OptionOrZero(calls[c].options, "maxResults")
      n == Cardinality(PrimaryLabels(c))
  IN  /\ \A i \in 1..Len(labels) : labels[i] \in PrimaryLabels(c)
      /\ \A i, j \in 1..Len(labels) :
           /\ i # j => labels[i].identifier # labels[j].identifier
           /\ i < j => labels[i].confidence >= labels[j].confidence
      /\ Len(labels) = IF limit > 0 THEN Min(limit, n) ELSE n
      /\ \A label \in PrimaryLabels(c) :
           \/ \E i \in 1..Len(labels) : labels[i] = label
           \/ \A i \in 1..Len(labels) : labels[i].confidence >= label.confidence

\* C34: on iOS the ML Kit labeler is invoked once Vision has succeeded when
\* iosUseMlKit is omitted or true; when it is false the labeler is never
\* invoked and the result is exactly the Vision labels, filtered, sorted and
\* truncated.
C34_SecondarySourceByDefault ==
  \A c \in CallIds :
    (os = "ios" /\ calls[c].op = "classify" /\ calls[c].native.kind = "resolve") =>
      /\ calls[c].options.iosUseMlKit \in {NoOpt, 1} =>
           /\ calls[c].mlkit \in {"labels", "error"}
           /\ nHandles = 1
      /\ calls[c].options.iosUseMlKit = 0 =>
           /\ calls[c].mlkit = "none" /\ calls[c].mlkitLabels = <<>>
           /\ nHandles = 0
           /\ PrimaryOnly(c)

\* a call that passed no iosUseMlKit got a label only ML Kit returned
C34_Witness ==
  \E c \in CallIds :
    /\ os = "ios" /\ ClassifySucceeded(c)
    /\ ~HasKey(calls[c].options, "iosUseMlKit")
    /\ calls[c].mlkit = "labels"
    /\ PrimaryLabels(c) # {}
    /\ \E i \in 1..Len(Labels(c)) :
         Labels(c)[i].identifier \notin Identifiers(calls[c].observations)

\* ------------------------------------------------------------------ C35
\* C35: on iOS a failure of the ML Kit labeler does not fail the call: it
\* resolves with success = true, exactly the Vision labels and no error
\* field; a call the native method rejects (the Vision request failed, the
\* image did not load) never invoked the ML Kit labeler and is returned as a
\* failure.
C35_SecondaryFailureIsNotFatal ==
  \A c \in CallIds :
    (os = "ios" /\ calls[c].op = "classify" /\ calls[c].pc = "end") =>
      /\ calls[c].mlkit = "error" =>
           /\ calls[c].native.kind = "resolve"
           /\ calls[c].native.value.success
           /\ ~Has(calls[c].native.value, "error")
           /\ PrimaryOnly(c)
           /\ Done(c) => calls[c].result = calls[c].native
      /\ calls[c].native.kind = "reject" =>
           /\ calls[c].mlkit = "none" /\ calls[c].mlkitLabels = <<>>
           /\ nHandles = 0
           /\ Done(c) => ~calls[c].result.value.success

\* the labeler failed and the call returned the Vision labels
C35_Witness ==
  \E c \in CallIds :
    /\ os = "ios" /\ ClassifySucceeded(c)
    /\ calls[c].mlkit = "error"
    /\ Len(Labels(c)) = 2
    /\ ~Has(calls[c].result.value, "error")

\* ------------------------------------------------------------------ C36
\* C36: the promise handed to a native method has resolve or reject invoked
\* on it at most once, whatever the order of the provider's callbacks, the
\* exceptions and invalidate(): it is pending until the one invocation and
\* settled after it.
C36_SettledAtMostOnce ==
  \A c \in CallIds :
    /\ calls[c].settlements <= 1
    /\ calls[c].settlements = 1 <=> calls[c].native.kind # "pending"
    /\ Done(c) => calls[c].settlements = 1

\* invalidate() ran while a classification and a download were in flight:
\* the coroutine was cancelled and the download failed, each settling once
C36_Witness ==
  \E c, d \in CallIds :
    /\ invalidations >= 1
    /\ calls[c].op = "classify" /\ calls[c].epoch = 0
    /\ calls[c].native.kind = "reject" /\ calls[c].settlements = 1
    /\ calls[c].native.message[2] = "Job was cancelled"
    /\ calls[d].op = "download" /\ calls[d].epoch = 0
    /\ calls[d].terminal = "failed" /\ calls[d].settlements = 1

\* ------------------------------------------------------------------ C37
\* an event is sent on the channel in this step
EventSent ==
  \E c \in CallIds : Len(calls'[c].emitted) = Len(calls[c].emitted) + 1

\* C37: a progress event sent by the callback of any download call invokes
\* the onProgress of every download call whose listener is attached, once,
\* and of no other call; the listener of a call is attached from the moment
\* the call is made until the call returns, so onProgress is invoked neither
\* before the call subscribed nor after it settled.
C37_EventsReachEveryPendingCall ==
  [][ /\ EventSent =>
           \A k \in CallIds :
             IF calls[k].subscribed
               THEN /\ Len(calls'[k].progress) = Len(calls[k].progress) + 1
                    /\ SubSeq(calls'[k].progress, 1, Len(calls[k].progress))
                         = calls[k].progress
               ELSE calls'[k].progress = calls[k].progress
      /\ \A k \in CallIds :
           calls'[k].progress # calls[k].progress =>
             /\ EventSent
             /\ calls[k].op = "download" /\ calls[k].hasCb
             /\ calls[k].subscribed /\ ~Done(k)
      /\ \A k \in CallIds :
           /\ Done(k) => ~calls[k].subscribed
           /\ (os = "android" /\ calls[k].op = "download" /\ calls[k].hasCb
                 /\ ~Done(k)) => calls[k].subscribed
      /\ Len(calls') > Len(calls) => calls'[Len(calls')].progress = <<>>
    ]_vars

\* two download calls with callbacks are pending; the session of one has sent
\* events, the other has sent none, and the onProgress of both was invoked
C37_Witness ==
  \E c, k \in CallIds :
    /\ c # k
    /\ calls[c].op = "download" /\ calls[c].hasCb /\ ~Done(c)
    /\ calls[k].op = "download" /\ calls[k].hasCb /\ ~Done(k)
    /\ Len(calls[c].emitted) = 2
    /\ calls[k].emitted = <<>>
    /\ Len(calls[c].progress) = 2
    /\ Len(calls[k].progress) = 2

\* ------------------------------------------------------------------ C38
\* the handles constructed so far that no invalidate() has closed
OpenHandles ==
  (1..nHandles) \ { closedHandles[i] : i \in 1..Len(closedHandles) }

\* C38: no provider handle outlives teardown: once the last invalidate() of
\* the run has returned (the MaxTeardowns-th), every handle that was ever
\* constructed is closed, and no bridge method holds a handle.
C38_NoHandleOutlivesTeardown ==
  invalidations = MaxTeardowns =>
    /\ OpenHandles = {}
    /\ imageLabeler = 0 /\ imageDescriber = 0
====
